---- MODULE Spec2Model ----
(***************************************************************************)
(* Project Euler problems 1 and 2.                                         *)
(*                                                                         *)
(* Problem 2 ("Complete Implementation with Three Algorithms.py"): five    *)
(* module-level Fibonacci functions, the UnifiedFibonacciSolver that       *)
(* dispatches on a filter, and analyze_dedekind_cut.  Problem 1 ("Project  *)
(* euler simple.py"): the closed-form sum of the multiples of 3 or 5.      *)
(*                                                                         *)
(* Every function is pure; a while loop is a RECURSIVE operator that takes *)
(* the loop's local variables and returns them as they are at loop exit.   *)
(* FibonacciResult.computation_time (a difference of two perf_counter      *)
(* readings) is not carried: no other field is computed from it.           *)
(***************************************************************************)
EXTENDS Integers, Sequences, FiniteSets, TLC

VARIABLES
    solver,   \* the UnifiedFibonacciSolver in use, [limit |-> self.limit]; NoSolver in problem 1
    call,     \* the last call made: [fn |-> name, args |-> arguments]
    raised,   \* the exception that call ended with, "none" when it returned
    ret,      \* the value that call returned, <<>> when it raised
    frame     \* the local variables of the call that is running, loop by loop

vars == <<solver, call, raised, ret, frame>>

\* ------------------------------------------------------------------ bounds
\* Limits handed to the Fibonacci functions: -NegLimit .. MaxLimit.
NegLimit == 3
MaxLimit == 100
\* Arguments of the problem 1 functions: n in -NegN .. MaxN, m in 1 .. MaxM.
NegN == 3
MaxN == 50
MaxM == 16
\* Number of terms of the reference Fibonacci sequence.
RefTerms == 24

Limits == (0 - NegLimit)..MaxLimit

\* ------------------------------------------------------- data structures
Filters == {"ALL", "EVEN", "ODD"}

\* What a caller can pass as filter_type: a member of the enum or anything else.
FilterArgs == Filters \cup {"other"}

Last(s) == IF Len(s) > 0 THEN s[Len(s)] ELSE 0

FibonacciResult(filter_type, sum_value, sequence, glb, lub, lim) ==
    [filter_type |-> filter_type, sum_value |-> sum_value,
     sequence |-> sequence, count |-> Len(sequence),
     glb |-> glb, lub |-> lub, limit |-> lim]

\* --------------------------------------------------------- fibonacci_all
RECURSIVE AllLoop(_, _, _, _, _)
AllLoop(a, b, sequence, total, lim) ==
    IF a <= lim
    THEN AllLoop(b, a + b, Append(sequence, a), total + a, lim)
    ELSE [a |-> a, b |-> b, sequence |-> sequence, total |-> total]

\* Mutant: a limit below 1 silently coerced to 1.
fibonacci_all_coerced(lim) ==
    LET s == AllLoop(1, 2, <<>>, 0, IF lim < 1 THEN 1 ELSE lim)
    IN  FibonacciResult("ALL", s.total, s.sequence, Last(s.sequence), s.a, lim)

fibonacci_all(lim) ==
    LET s == AllLoop(1, 2, <<>>, 0, lim)
    IN  FibonacciResult("ALL", s.total, s.sequence, Last(s.sequence), s.a, lim)

\* ---------------------------------------------- fibonacci_even_optimized
\* Mutant: the even recurrence written 4b - a.
RECURSIVE EvenLoopMinus(_, _, _, _, _)
EvenLoopMinus(a, b, sequence, total, lim) ==
    IF a <= lim
    THEN EvenLoopMinus(b, 4 * b - a, Append(sequence, a), total + a, lim)
    ELSE [a |-> a, b |-> b, sequence |-> sequence, total |-> total]

RECURSIVE EvenLoop(_, _, _, _, _)
EvenLoop(a, b, sequence, total, lim) ==
    IF a <= lim
    THEN EvenLoop(b, 4 * b + a, Append(sequence, a), total + a, lim)
    ELSE [a |-> a, b |-> b, sequence |-> sequence, total |-> total]

\* Mutant: the even sequence seeded (0, 2) instead of (2, 8).
fibonacci_even_seed02(lim) ==
    LET s == EvenLoop(0, 2, <<>>, 0, lim)
    IN  FibonacciResult("EVEN", s.total, s.sequence, Last(s.sequence), s.a, lim)

fibonacci_even_optimized(lim) ==
    LET s == EvenLoop(2, 8, <<>>, 0, lim)
    IN  FibonacciResult("EVEN", s.total, s.sequence, Last(s.sequence), s.a, lim)

\* ----------------------------------------------- fibonacci_even_filtered
RECURSIVE EvenFilterLoop(_, _, _, _, _)
EvenFilterLoop(a, b, sequence, total, lim) ==
    IF a <= lim
    THEN IF a % 2 = 0
         THEN EvenFilterLoop(b, a + b, Append(sequence, a), total + a, lim)
         ELSE EvenFilterLoop(b, a + b, sequence, total, lim)
    ELSE [a |-> a, b |-> b, sequence |-> sequence, total |-> total]

\* while a % 2 == 1: a, b = b, a + b
RECURSIVE NextEvenLoop(_, _)
NextEvenLoop(a, b) ==
    IF a % 2 = 1 THEN NextEvenLoop(b, a + b) ELSE [a |-> a, b |-> b]

fibonacci_even_filtered(lim) ==
    LET s == EvenFilterLoop(1, 2, <<>>, 0, lim)
        u == NextEvenLoop(s.a, s.b)
    IN  FibonacciResult("EVEN", s.total, s.sequence, Last(s.sequence), u.a, lim)

\* ------------------------------------------------ fibonacci_odd_filtered
\* Mutant: the parity test inverted, so that the even terms are kept.
RECURSIVE OddFilterLoopEven(_, _, _, _, _)
OddFilterLoopEven(a, b, sequence, total, lim) ==
    IF a <= lim
    THEN IF a % 2 = 0
         THEN OddFilterLoopEven(b, a + b, Append(sequence, a), total + a, lim)
         ELSE OddFilterLoopEven(b, a + b, sequence, total, lim)
    ELSE [a |-> a, b |-> b, sequence |-> sequence, total |-> total]

RECURSIVE OddFilterLoop(_, _, _, _, _)
OddFilterLoop(a, b, sequence, total, lim) ==
    IF a <= lim
    THEN IF a % 2 = 1
         THEN OddFilterLoop(b, a + b, Append(sequence, a), total + a, lim)
         ELSE OddFilterLoop(b, a + b, sequence, total, lim)
    ELSE [a |-> a, b |-> b, sequence |-> sequence, total |-> total]

\* while a <= limit or a % 2 == 0: a, b = b, a + b
RECURSIVE NextOddLoop(_, _, _)
NextOddLoop(a, b, lim) ==
    IF a <= lim \/ a % 2 = 0 THEN NextOddLoop(b, a + b, lim) ELSE [a |-> a, b |-> b]

fibonacci_odd_filtered(lim) ==
    LET s == OddFilterLoop(1, 2, <<>>, 0, lim)
        u == NextOddLoop(s.a, s.b, lim)
    IN  FibonacciResult("ODD", s.total, s.sequence, Last(s.sequence), u.a, lim)

\* ---------------------------------------------- fibonacci_odd_difference
\* [f for f in all_result.sequence if f % 2 == 1]
IsOdd(f) == f % 2 = 1

\* while a % 2 == 0: a, b = b, a + b
RECURSIVE SkipEvenLoop(_, _)
SkipEvenLoop(a, b) ==
    IF a % 2 = 0 THEN SkipEvenLoop(b, a + b) ELSE [a |-> a, b |-> b]

\* Mutant: the sum of the odd terms taken as Sum(All) alone.
fibonacci_odd_no_difference(lim) ==
    LET all_result == fibonacci_all(lim)
        odd_sequence == SelectSeq(all_result.sequence, IsOdd)
        u == SkipEvenLoop(all_result.lub, all_result.lub + all_result.glb)
    IN  FibonacciResult("ODD", all_result.sum_value, odd_sequence,
                        Last(odd_sequence), u.a, lim)

\* Mutant: the search for the next odd term left out, lub = lub(ALL).
fibonacci_odd_no_search(lim) ==
    LET all_result == fibonacci_all(lim)
        even_result == fibonacci_even_optimized(lim)
        odd_sequence == SelectSeq(all_result.sequence, IsOdd)
    IN  FibonacciResult("ODD", all_result.sum_value - even_result.sum_value,
                        odd_sequence, Last(odd_sequence), all_result.lub, lim)

\* Mutant: the sequence of ALL returned without filtering.
fibonacci_odd_unfiltered(lim) ==
    LET all_result == fibonacci_all(lim)
        even_result == fibonacci_even_optimized(lim)
        odd_sequence == all_result.sequence
        u == SkipEvenLoop(all_result.lub, all_result.lub + all_result.glb)
    IN  FibonacciResult("ODD", all_result.sum_value - even_result.sum_value,
                        odd_sequence, Last(odd_sequence), u.a, lim)

fibonacci_odd_difference(lim) ==
    LET all_result == fibonacci_all(lim)
        even_result == fibonacci_even_optimized(lim)
        odd_sequence == SelectSeq(all_result.sequence, IsOdd)
        odd_sum == all_result.sum_value - even_result.sum_value
        u == SkipEvenLoop(all_result.lub, all_result.lub + all_result.glb)
    IN  FibonacciResult("ODD", odd_sum, odd_sequence, Last(odd_sequence), u.a, lim)

\* ------------------------------------------------ UnifiedFibonacciSolver
\* solve, for a filter of the enum; any other value raises ValueError.
solve(lim, filter_type) ==
    IF filter_type = "ALL" THEN fibonacci_all(lim)
    ELSE IF filter_type = "EVEN" THEN fibonacci_even_optimized(lim)
    ELSE fibonacci_odd_difference(lim)

solve_raises(filter_type) == filter_type \notin Filters

solve_all_three(lim) == <<solve(lim, "ALL"), solve(lim, "EVEN"), solve(lim, "ODD")>>

verify_results(all_result, even_result, odd_result) ==
    all_result.sum_value = even_result.sum_value + odd_result.sum_value

\* -------------------------------------------------- analyze_dedekind_cut
\* for _ in range(3)
UpperSetSize == 3

\* EVEN: upper_set.append(a); a, b = b, 4*b + a
RECURSIVE UpperEvenLoop(_, _, _, _)
UpperEvenLoop(a, b, upper_set, k) ==
    IF k = 0 THEN upper_set
    ELSE UpperEvenLoop(b, 4 * b + a, Append(upper_set, a), k - 1)

\* ALL, ODD: upper_set.append(b); a, b = b, a + b; for ODD an even b is skipped
RECURSIVE UpperStdLoop(_, _, _, _, _)
UpperStdLoop(a, b, upper_set, k, filter_type) ==
    IF k = 0 THEN upper_set
    ELSE LET a1 == b
             b1 == a + b
         IN  IF filter_type = "ODD" /\ b1 % 2 = 0
             THEN UpperStdLoop(b1, a1 + b1, Append(upper_set, b), k - 1, filter_type)
             ELSE UpperStdLoop(a1, b1, Append(upper_set, b), k - 1, filter_type)

analyze_dedekind_cut(filter_type, lim) ==
    LET result == solve(lim, filter_type)
        upper_set ==
            IF filter_type = "EVEN"
            THEN UpperEvenLoop(result.lub, 4 * result.lub + result.glb, <<>>, UpperSetSize)
            ELSE UpperStdLoop(result.glb, result.lub, <<>>, UpperSetSize, filter_type)
    IN  [limit |-> lim, lower_set |-> result.sequence, upper_set |-> upper_set,
         glb |-> result.glb, lub |-> result.lub,
         glb_index |-> result.count, lub_index |-> result.count + 1]

\* ---------------------------------------------- problem 1: closed forms
\* Mutant: k counts the multiples up to and including n.
sum_multiples_upto(n, m) ==
    IF n <= m THEN 0
    ELSE LET k == n \div m IN (m * k * (k + 1)) \div 2

sum_multiples_below(n, m) ==
    IF n <= m THEN 0
    ELSE LET k == (n - 1) \div m IN (m * k * (k + 1)) \div 2

calculate_sum_3_or_5(n) ==
    LET sum_3 == sum_multiples_below(n, 3)
        sum_5 == sum_multiples_below(n, 5)
        sum_15 == sum_multiples_below(n, 15)
    IN  sum_3 + sum_5 - sum_15

\* ------------------------------------------------------- state machine
NoSolver == [limit |-> 0, constructed |-> FALSE]

\* No call is running: the locals are unset.
NoFrame ==
    [fn |-> "none", loop |-> "none", pc |-> "idle", a |-> 0, b |-> 0,
     sequence |-> <<>>, total |-> 0, iterations |-> 0, advances |-> 0,
     all_result |-> <<>>]

UnifiedFibonacciSolver(lim) == [limit |-> lim, constructed |-> TRUE]

Returns(fn, args, value) ==
    /\ call' = [fn |-> fn, args |-> args]
    /\ raised' = "none"
    /\ ret' = value
    /\ UNCHANGED <<solver, frame>>

Raises(fn, args, exception) ==
    /\ call' = [fn |-> fn, args |-> args]
    /\ raised' = exception
    /\ ret' = <<>>
    /\ UNCHANGED <<solver, frame>>

Init ==
    /\ solver \in {UnifiedFibonacciSolver(lim) : lim \in Limits}
    /\ call = [fn |-> "none", args |-> <<>>]
    /\ raised = "none"
    /\ ret = <<>>
    /\ frame = NoFrame

\* A direct call of one of the five module-level functions with the limit in use.
FibonacciAll ==
    Returns("fibonacci_all", <<solver.limit>>, fibonacci_all(solver.limit))

FibonacciEvenOptimized ==
    Returns("fibonacci_even_optimized", <<solver.limit>>,
            fibonacci_even_optimized(solver.limit))

FibonacciEvenFiltered ==
    Returns("fibonacci_even_filtered", <<solver.limit>>,
            fibonacci_even_filtered(solver.limit))

FibonacciOddFiltered ==
    Returns("fibonacci_odd_filtered", <<solver.limit>>,
            fibonacci_odd_filtered(solver.limit))

FibonacciOddDifference ==
    Returns("fibonacci_odd_difference", <<solver.limit>>,
            fibonacci_odd_difference(solver.limit))

Solve(filter_type) ==
    IF solve_raises(filter_type)
    THEN Raises("solve", <<filter_type>>, "ValueError")
    ELSE Returns("solve", <<filter_type>>, solve(solver.limit, filter_type))

SolveAllThree ==
    Returns("solve_all_three", <<>>, solve_all_three(solver.limit))

\* demonstrate_all_three: verify_results on the triple solve_all_three returned.
VerifyResults ==
    /\ call.fn = "solve_all_three"
    /\ Returns("verify_results", ret, verify_results(ret[1], ret[2], ret[3]))

\* analyze_dedekind_cut builds its own solver from its limit argument; the
\* ValueError of solve passes through it.
AnalyzeDedekindCut(filter_type) ==
    IF solve_raises(filter_type)
    THEN Raises("analyze_dedekind_cut", <<filter_type, solver.limit>>, "ValueError")
    ELSE Returns("analyze_dedekind_cut", <<filter_type, solver.limit>>,
                 analyze_dedekind_cut(filter_type, solver.limit))

Next ==
    \/ FibonacciAll
    \/ FibonacciEvenOptimized
    \/ FibonacciEvenFiltered
    \/ FibonacciOddFiltered
    \/ FibonacciOddDifference
    \/ \E filter_type \in FilterArgs : Solve(filter_type)
    \/ SolveAllThree
    \/ VerifyResults
    \/ \E filter_type \in FilterArgs : AnalyzeDedekindCut(filter_type)

Spec == Init /\ [][Next]_vars

\* Problem 1 is a script of its own: no solver exists in it.
InitEuler1 ==
    /\ solver = NoSolver
    /\ call = [fn |-> "none", args |-> <<>>]
    /\ raised = "none"
    /\ ret = <<>>
    /\ frame = NoFrame

SumMultiplesBelow(n, m) ==
    Returns("sum_multiples_below", <<n, m>>, sum_multiples_below(n, m))

CalculateSum3Or5(n) ==
    Returns("calculate_sum_3_or_5", <<n>>, calculate_sum_3_or_5(n))

NextEuler1 ==
    \/ \E n \in (0 - NegN)..MaxN, m \in 1..MaxM : SumMultiplesBelow(n, m)
    \/ \E n \in (0 - NegN)..MaxN : CalculateSum3Or5(n)

SpecEuler1 == InitEuler1 /\ [][NextEuler1]_vars

\* ------------------------------------------- the loops, step by step
FibonacciFunctions ==
    {"fibonacci_all", "fibonacci_even_optimized", "fibonacci_even_filtered",
     "fibonacci_odd_filtered", "fibonacci_odd_difference"}

\* One action per pass of a while loop and one per loop exit, for a call of
\* one of the five functions with the limit in use.  frame.loop names the
\* function whose collecting loop is running: the function called, or,
\* inside fibonacci_odd_difference, fibonacci_all and then
\* fibonacci_even_optimized.  frame.iterations and frame.advances count the
\* passes of the collecting loop and of the search loop.

\* a, b = 1, 2; in fibonacci_even_optimized a, b = 2, 8
Seed(loop) == IF loop = "fibonacci_even_optimized" THEN <<2, 8>> ELSE <<1, 2>>

\* The test under which the collecting loop appends a and adds it to total.
Keeps(loop, a) ==
    IF loop = "fibonacci_even_filtered" THEN a % 2 = 0
    ELSE IF loop = "fibonacci_odd_filtered" THEN a % 2 = 1
    ELSE TRUE

\* a, b = b, a + b; in fibonacci_even_optimized a, b = b, 4*b + a
Advance(loop, a, b) ==
    IF loop = "fibonacci_even_optimized" THEN <<b, 4 * b + a>> ELSE <<b, a + b>>

\* The condition of the loop that looks for the lub.
SearchContinues(fn, a, lim) ==
    IF fn = "fibonacci_even_filtered" THEN a % 2 = 1
    ELSE IF fn = "fibonacci_odd_filtered" THEN a <= lim \/ a % 2 = 0
    ELSE a % 2 = 0

\* Mutant: b seeded with a + a, so that an even a is followed by even terms only.
OddSearchSeedDoubled(all_result) == <<all_result.lub, all_result.lub + all_result.lub>>

\* a = all_result.lub; b = a + all_result.glb
OddSearchSeed(all_result) == <<all_result.lub, all_result.lub + all_result.glb>>

FilterOf(fn) ==
    IF fn = "fibonacci_all" THEN "ALL"
    ELSE IF fn \in {"fibonacci_even_optimized", "fibonacci_even_filtered"} THEN "EVEN"
    ELSE "ODD"

Running == frame.pc \in {"collect", "search"}

LoopReturns(value) ==
    /\ frame' = [frame EXCEPT !.pc = "done"]
    /\ call' = [fn |-> frame.fn, args |-> <<solver.limit>>]
    /\ raised' = "none"
    /\ ret' = value
    /\ UNCHANGED solver

InitLoops ==
    /\ solver \in {UnifiedFibonacciSolver(lim) : lim \in Limits}
    /\ call = [fn |-> "none", args |-> <<>>]
    /\ raised = "none"
    /\ ret = <<>>
    /\ frame = NoFrame

\* The call starts: sequence = [], total = 0 and the seed of the first loop.
Begin(fn) ==
    /\ ~Running
    /\ LET loop == IF fn = "fibonacci_odd_difference" THEN "fibonacci_all" ELSE fn
       IN  frame' = [fn |-> fn, loop |-> loop, pc |-> "collect",
                     a |-> Seed(loop)[1], b |-> Seed(loop)[2],
                     sequence |-> <<>>, total |-> 0, iterations |-> 0,
                     advances |-> 0, all_result |-> <<>>]
    /\ UNCHANGED <<solver, call, raised, ret>>

\* One pass of while a <= limit.
CollectStep ==
    /\ frame.pc = "collect"
    /\ frame.a <= solver.limit
    /\ LET kept == Keeps(frame.loop, frame.a)
           next == Advance(frame.loop, frame.a, frame.b)
       IN  frame' = [frame EXCEPT
                        !.sequence = IF kept THEN Append(@, frame.a) ELSE @,
                        !.total = IF kept THEN @ + frame.a ELSE @,
                        !.a = next[1], !.b = next[2],
                        !.iterations = @ + 1]
    /\ UNCHANGED <<solver, call, raised, ret>>

\* fibonacci_all and fibonacci_even_optimized return when the loop exits.
CollectReturn ==
    /\ frame.pc = "collect"
    /\ ~(frame.a <= solver.limit)
    /\ frame.fn = frame.loop
    /\ frame.fn \in {"fibonacci_all", "fibonacci_even_optimized"}
    /\ LoopReturns(FibonacciResult(FilterOf(frame.fn), frame.total, frame.sequence,
                                   Last(frame.sequence), frame.a, solver.limit))

\* The filtered functions go on to look for the lub from the a, b reached.
CollectThenSearch ==
    /\ frame.pc = "collect"
    /\ ~(frame.a <= solver.limit)
    /\ frame.fn \in {"fibonacci_even_filtered", "fibonacci_odd_filtered"}
    /\ frame' = [frame EXCEPT !.pc = "search"]
    /\ UNCHANGED <<solver, call, raised, ret>>

\* In fibonacci_odd_difference: fibonacci_all has returned and
\* fibonacci_even_optimized is called.
OddDifferenceAllDone ==
    /\ frame.pc = "collect"
    /\ ~(frame.a <= solver.limit)
    /\ frame.fn = "fibonacci_odd_difference"
    /\ frame.loop = "fibonacci_all"
    /\ frame' = [frame EXCEPT
                    !.all_result = FibonacciResult("ALL", frame.total, frame.sequence,
                                                   Last(frame.sequence), frame.a,
                                                   solver.limit),
                    !.loop = "fibonacci_even_optimized",
                    !.a = Seed("fibonacci_even_optimized")[1],
                    !.b = Seed("fibonacci_even_optimized")[2],
                    !.sequence = <<>>, !.total = 0, !.iterations = 0]
    /\ UNCHANGED <<solver, call, raised, ret>>

\* In fibonacci_odd_difference: fibonacci_even_optimized has returned; the odd
\* sequence and sum are computed and the search for the lub is seeded.
OddDifferenceEvenDone ==
    /\ frame.pc = "collect"
    /\ ~(frame.a <= solver.limit)
    /\ frame.fn = "fibonacci_odd_difference"
    /\ frame.loop = "fibonacci_even_optimized"
    /\ LET seed == OddSearchSeed(frame.all_result)
       IN  frame' = [frame EXCEPT
                        !.pc = "search",
                        !.sequence = SelectSeq(frame.all_result.sequence, IsOdd),
                        !.total = frame.all_result.sum_value - frame.total,
                        !.a = seed[1], !.b = seed[2]]
    /\ UNCHANGED <<solver, call, raised, ret>>

\* One pass of the loop that looks for the lub: a, b = b, a + b.
SearchStep ==
    /\ frame.pc = "search"
    /\ SearchContinues(frame.fn, frame.a, solver.limit)
    /\ frame' = [frame EXCEPT !.a = frame.b, !.b = frame.a + frame.b,
                               !.advances = @ + 1]
    /\ UNCHANGED <<solver, call, raised, ret>>

SearchReturn ==
    /\ frame.pc = "search"
    /\ ~SearchContinues(frame.fn, frame.a, solver.limit)
    /\ LoopReturns(FibonacciResult(FilterOf(frame.fn), frame.total, frame.sequence,
                                   Last(frame.sequence), frame.a, solver.limit))

\* What the interpreter does next while a call is running.
Run ==
    \/ CollectStep
    \/ CollectReturn
    \/ CollectThenSearch
    \/ OddDifferenceAllDone
    \/ OddDifferenceEvenDone
    \/ SearchStep
    \/ SearchReturn

NextLoops ==
    \/ \E fn \in FibonacciFunctions : Begin(fn)
    \/ Run

\* The interpreter is single-threaded and never suspends a call: a running
\* call takes its next step.
SpecLoops == InitLoops /\ [][NextLoops]_vars /\ WF_vars(Run)

\* ------------------------------------------------- reference definitions
\* The Fibonacci sequence of seed (1, 2), by its defining recurrence.
RECURSIVE RefExtend(_, _)
RefExtend(s, k) ==
    IF Len(s) >= k THEN s
    ELSE RefExtend(Append(s, s[Len(s)] + s[Len(s) - 1]), k)

RefFibonacci == RefExtend(<<1, 2>>, RefTerms)

HasParity(filter_type, x) ==
    \/ filter_type = "ALL"
    \/ filter_type = "EVEN" /\ x % 2 = 0
    \/ filter_type = "ODD" /\ x % 2 = 1

\* The terms of the filtered class: Fibonacci terms with the filter's parity.
RefClass(filter_type) ==
    {RefFibonacci[i] : i \in {j \in 1..RefTerms : HasParity(filter_type, RefFibonacci[j])}}

\* The first k terms of the filtered class above lim, ascending.
RefAbove(filter_type, lim, k) ==
    LET Above(x) == x > lim /\ HasParity(filter_type, x)
    IN  SubSeq(SelectSeq(RefFibonacci, Above), 1, k)

RECURSIVE SeqSum(_)
SeqSum(s) == IF s = <<>> THEN 0 ELSE s[1] + SeqSum(Tail(s))

RECURSIVE SetSum(_)
SetSum(S) ==
    IF S = {} THEN 0
    ELSE LET x == CHOOSE y \in S : TRUE IN x + SetSum(S \ {x})

\* The last call was solve with the given filter of the enum.
Solved(filter_type) == call.fn = "solve" /\ call.args = <<filter_type>>

\* The last call was solve with some filter of the enum.
SolvedAny == call.fn = "solve" /\ call.args[1] \in Filters

\* ------------------------------------------------------------------ C1
\* C1: for every bound >= 1 the sum of solve(ALL) equals the sum of
\* solve(EVEN) plus the sum of solve(ODD), and verify_results on the triple
\* of solve_all_three returns True.
C1_SumAllIsEvenPlusOdd ==
    /\ (call.fn = "solve_all_three" /\ solver.limit >= 1) =>
           /\ ret[1].filter_type = "ALL"
           /\ ret[2].filter_type = "EVEN"
           /\ ret[3].filter_type = "ODD"
           /\ ret[1].sum_value = ret[2].sum_value + ret[3].sum_value
    /\ (call.fn = "verify_results" /\ solver.limit >= 1) => ret = TRUE

C1_Witness ==
    /\ call.fn = "verify_results"
    /\ solver.limit = 100
    /\ call.args[1].sum_value = 231
    /\ call.args[2].sum_value = 44
    /\ call.args[3].sum_value = 187
    /\ ret = TRUE

\* ------------------------------------------------------------------ C2
\* C2: with bound 100 and filter ALL the analysis returns sum 232 and
\* count 12, and its sequence ends with 89.
C2_Analyze100All ==
    (Solved("ALL") /\ solver.limit = 100) =>
        /\ ret.sum_value = 232
        /\ ret.count = 12
        /\ Last(ret.sequence) = 89

\* ------------------------------------------------------------------ C3
\* C3 as stated: a call with bound < 1, for any filter, fails with an
\* invalid-argument error.
C3_BoundBelowOneRejected ==
    (SolvedAny /\ solver.limit < 1) => raised # "none"

\* C3 as amended: a call with bound < 1 and a filter of the enum raises
\* nothing and returns the empty analysis: empty sequence, sum 0, count 0,
\* glb 0, and as lub the first term of the class (1 for ALL and ODD, 2 for
\* EVEN); the bound is recorded unchanged.
C3_BoundBelowOneAccepted ==
    (SolvedAny /\ solver.limit < 1) =>
        /\ raised = "none"
        /\ ret.filter_type = call.args[1]
        /\ ret.sequence = <<>>
        /\ ret.sum_value = 0
        /\ ret.count = 0
        /\ ret.glb = 0
        /\ ret.lub = IF call.args[1] = "EVEN" THEN 2 ELSE 1
        /\ ret.limit = solver.limit

C3_Witness ==
    /\ Solved("ODD")
    /\ solver.limit = 0
    /\ raised = "none"
    /\ ret.lub = 1

\* ------------------------------------------------------------------ C4
\* C4: for every bound >= 1 and every filter the returned lub is greater
\* than the bound, is a Fibonacci term of seed (1, 2) with the filter's
\* parity, and no smaller term of that class exceeds the bound.
C4_LubIsLeastAbove ==
    (SolvedAny /\ solver.limit >= 1) =>
        /\ ret.lub > solver.limit
        /\ ret.lub \in RefClass(call.args[1])
        /\ \A t \in RefClass(call.args[1]) : t > solver.limit => ret.lub <= t

\* lub(ALL) = 8 is even, and the search advances to 13.
C4_Witness ==
    /\ Solved("ODD")
    /\ solver.limit = 5
    /\ ret.lub = 13

\* ------------------------------------------------------------------ C5
\* C5: for every bound, fibonacci_even_optimized (direct recurrence from
\* (2, 8)) and fibonacci_even_filtered (standard recurrence from (1, 2),
\* even terms kept) return the same sequence, sum, count, glb and lub.
SameAnalysis(r1, r2) ==
    /\ r1.sequence = r2.sequence
    /\ r1.sum_value = r2.sum_value
    /\ r1.count = r2.count
    /\ r1.glb = r2.glb
    /\ r1.lub = r2.lub

C5_EvenOptimizedIsEvenFiltered ==
    /\ call.fn = "fibonacci_even_optimized" =>
           SameAnalysis(ret, fibonacci_even_filtered(solver.limit))
    /\ call.fn = "fibonacci_even_filtered" =>
           SameAnalysis(ret, fibonacci_even_optimized(solver.limit))

C5_Witness ==
    /\ call.fn = "fibonacci_even_optimized"
    /\ solver.limit = 100
    /\ ret.sequence = <<2, 8, 34>>
    /\ ret.lub = 144

\* ------------------------------------------------------------------ C6
\* C6: for every bound >= 1 and every filter, every element of the
\* returned sequence is <= bound and has the filter's parity.
C6_ElementsInClassAndBound ==
    (SolvedAny /\ solver.limit >= 1) =>
        \A i \in 1..Len(ret.sequence) :
            /\ ret.sequence[i] <= solver.limit
            /\ HasParity(call.args[1], ret.sequence[i])

C6_Witness ==
    /\ Solved("ODD")
    /\ solver.limit = 21
    /\ ret.sequence = <<1, 3, 5, 13, 21>>

\* ------------------------------------------------------------------ C7
\* C7: with bound 1 and filter EVEN the call succeeds and returns an empty
\* sequence, sum 0, count 0, glb 0 and lub 2.
C7_EmptyEvenAtOne ==
    (Solved("EVEN") /\ solver.limit = 1) =>
        /\ raised = "none"
        /\ ret.sequence = <<>>
        /\ ret.sum_value = 0
        /\ ret.count = 0
        /\ ret.glb = 0
        /\ ret.lub = 2

C7_Witness ==
    /\ Solved("EVEN")
    /\ solver.limit = 1
    /\ raised = "none"
    /\ ret.filter_type = "EVEN"

\* ------------------------------------------------------------------ C8
\* C8: for every integer n, calculate_sum_3_or_5(n) is the sum of the
\* positive integers below n divisible by 3 or by 5, and for every m >= 1
\* sum_multiples_below(n, m) is the sum of the positive multiples of m
\* below n (0 when n <= m).
C8_ClosedFormIsSum ==
    /\ call.fn = "calculate_sum_3_or_5" =>
           ret = SetSum({k \in 1..(call.args[1] - 1) : k % 3 = 0 \/ k % 5 = 0})
    /\ call.fn = "sum_multiples_below" =>
           ret = SetSum({k \in 1..(call.args[1] - 1) : k % call.args[2] = 0})

\* 3 + 6 + ... + 30, plus 5 + 10 + ... + 30, less 15 + 30.
C8_Witness ==
    /\ call.fn = "calculate_sum_3_or_5"
    /\ call.args = <<31>>
    /\ ret = 225

\* ------------------------------------------------------------------ C9
\* C9: for every bound, fibonacci_odd_difference returns the same sum,
\* sequence, count, glb and lub as fibonacci_odd_filtered, and its sum is
\* the sum of its own sequence.
C9_OddDifferenceIsOddFiltered ==
    /\ call.fn = "fibonacci_odd_difference" =>
           /\ SameAnalysis(ret, fibonacci_odd_filtered(solver.limit))
           /\ ret.sum_value = SeqSum(ret.sequence)
    /\ call.fn = "fibonacci_odd_filtered" =>
           SameAnalysis(ret, fibonacci_odd_difference(solver.limit))

C9_Witness ==
    /\ call.fn = "fibonacci_odd_difference"
    /\ solver.limit = 100
    /\ ret.sequence = <<1, 3, 5, 13, 21, 55, 89>>
    /\ ret.sum_value = 187
    /\ ret.lub = 233

\* ------------------------------------------------------------------ C10
\* C10: for every limit >= 1 and every filter, the upper_set of
\* analyze_dedekind_cut holds the first three terms of the filtered
\* Fibonacci class above the limit, ascending; its first element is the
\* lub of the result.
C10_UpperSetIsNextThree ==
    (call.fn = "analyze_dedekind_cut" /\ raised = "none" /\ solver.limit >= 1) =>
        /\ ret.upper_set = RefAbove(call.args[1], solver.limit, UpperSetSize)
        /\ ret.upper_set[1] = ret.lub

\* ------------------------------------------------------------------ C11
\* The whole-function operator that models fn.
WholeCall(fn, lim) ==
    IF fn = "fibonacci_all" THEN fibonacci_all(lim)
    ELSE IF fn = "fibonacci_even_optimized" THEN fibonacci_even_optimized(lim)
    ELSE IF fn = "fibonacci_even_filtered" THEN fibonacci_even_filtered(lim)
    ELSE IF fn = "fibonacci_odd_filtered" THEN fibonacci_odd_filtered(lim)
    ELSE fibonacci_odd_difference(lim)

\* The step-by-step loops return what the whole-function operators return.
LoopsAgreeWithWholeCalls ==
    frame.pc = "done" => ret = WholeCall(frame.fn, solver.limit)

\* The collecting loop makes one pass per term of its recurrence that is
\* <= the bound, and the search loop advances at most twice (of three
\* consecutive Fibonacci terms exactly one is even).
BoundedPasses ==
    (Running /\ solver.limit >= 1) =>
        /\ frame.iterations <=
               Cardinality({t \in RefClass(IF frame.loop = "fibonacci_even_optimized"
                                           THEN "EVEN" ELSE "ALL") :
                               t <= solver.limit})
        /\ frame.advances <= 2

\* C11: for every bound >= 1 every call of the five functions terminates:
\* a running call always reaches its return, the collecting loop after one
\* pass per term <= bound and each parity-search loop after at most two
\* advances of the standard recurrence.
C11_EveryCallTerminates ==
    /\ []BoundedPasses
    /\ [](Running /\ solver.limit >= 1 => <>(frame.pc = "done"))

\* fibonacci_odd_filtered returned after its search loop advanced.
C11_Witness ==
    /\ frame.pc = "done"
    /\ frame.fn = "fibonacci_odd_filtered"
    /\ solver.limit = 5
    /\ frame.iterations = 4
    /\ frame.advances = 1
    /\ ret.lub = 13

====
